---- MODULE Spec2Model ----
(***************************************************************************)
(* The Delta coin ledger of apps/core (services_delta.py, models_delta.py, *)
(* admin_delta.py) as a state machine.                                     *)
(*                                                                         *)
(* The committed database is wallets, txs, products and purchases.  Each   *)
(* request worker of Proc runs one DeltaService call at a time.  A call    *)
(* is one database transaction (db_transaction.atomic): it takes row       *)
(* locks with select_for_update, keeps its writes in its own buffer, and   *)
(* makes them visible at Commit; a raised exception discards the buffer    *)
(* and releases the locks.  Amounts are whole numbers of the smallest      *)
(* currency unit.                                                          *)
(***************************************************************************)
EXTENDS Integers, Sequences, FiniteSets, TLC

VARIABLES wallets, txs, products, purchases, wlock, plock,
          pc, call, buf, finished, expected, admin_ops, call_limit

(* The timezone of a request: the request, the timezone the middleware    *)
(* activated for it and the one the utility resolved.                      *)
VARIABLES request, activated, resolved

(* The practice player: Question.is_active, the PracticeSession,           *)
(* UserAnswer and MasteredQuestion rows, the last response sent, and the   *)
(* position and local variables of each check_answer request.              *)
VARIABLES is_active, sessions, answers, mastered, response, at, local

practice == <<is_active, sessions, answers, mastered, response, at, local>>

site == <<request, activated, resolved, practice>>

vars == <<wallets, txs, products, purchases, wlock, plock,
          pc, call, buf, finished, expected, admin_ops, call_limit, site>>

db == <<wallets, txs, products, purchases>>

(* ------------------------------ bounds ------------------------------- *)

MaxCalls == 2

MaxLedgerCalls == 3

MaxAmount == 2

(* amounts range over -MaxRefused..MaxAmount: zero and negative amounts,
   which add_delta and deduct_delta refuse, are inputs too *)
MaxRefused == 1

InitBalance == 3

MaxStock == 1

MaxRaceStock == 2

MaxQuantity == 2

MaxAdminOps == 2

MaxSessions == 3

MaxAnswers == 2

MaxTime == 1

MaxDeactivated == 1

(* ----------------------------- universe ------------------------------ *)

Users == {"u1", "u2"}

NoUser == "nobody"

Proc == {"p1", "p2"}

NoProc == "free"

ProductIds == {"badge", "boost"}

NoProduct == "noproduct"

CreditTypes == {"earn"}

DebitTypes == {"spend"}

TRANSACTION_TYPES ==
    {"earn", "spend", "transfer", "refund", "bonus", "admin_add", "admin_deduct",
     "reversal"}

STATUS_CHOICES == {"pending", "completed", "failed", "reversed"}

ValidationErrors ==
    {"Amount must be positive", "Wallet is not active", "Wallet is frozen",
     "Insufficient balance", "Cannot transfer to yourself", "Transfer failed",
     "Transaction already reversed", "Can only reverse completed transactions",
     "Product is not available", "Insufficient product quantity available"}

(* Earning rules as setup_delta_rules installs them, one of each shape    *)
(* (unconditional, with a min_accuracy condition) and one that staff       *)
(* switched off; the amounts are scaled down.                              *)
EarningRules ==
    {[name |-> "complete_practice_session", amount |-> 1, is_active |-> TRUE,
      has_min_accuracy |-> FALSE, min_accuracy |-> 0],
     [name |-> "perfect_practice", amount |-> 2, is_active |-> TRUE,
      has_min_accuracy |-> TRUE, min_accuracy |-> 100],
     [name |-> "daily_login", amount |-> 1, is_active |-> FALSE,
      has_min_accuracy |-> FALSE, min_accuracy |-> 0]}

(* kwargs of award_for_activity without an 'accuracy' entry.               *)
NotSupplied == -1

(* The (activity_name, accuracy) pairs callers pass to award_for_activity. *)
AwardInputs ==
    {<<"complete_practice_session", NotSupplied>>, <<"perfect_practice", 80>>,
     <<"perfect_practice", 100>>, <<"perfect_practice", NotSupplied>>,
     <<"daily_login", NotSupplied>>, <<"no_such_rule", NotSupplied>>}

(* The reference_id end_practice passes along with an award: the practice  *)
(* session it closes.                                                      *)
Sessions == {"session1"}

NoSession == "None"

(* ------------------------------ records ------------------------------ *)

BlankWallet ==
    [exists |-> FALSE, balance |-> 0, total_earned |-> 0, total_spent |-> 0,
     is_active |-> FALSE, is_frozen |-> FALSE]

NewWallet(b) ==
    [exists |-> TRUE, balance |-> b, total_earned |-> b, total_spent |-> 0,
     is_active |-> TRUE, is_frozen |-> FALSE]

NoCall ==
    [op |-> "none", user |-> NoUser, to |-> NoUser, amount |-> 0,
     type |-> "none", tx |-> 0, copy_reversed |-> FALSE,
     copy_status |-> "none", product |-> NoProduct, quantity |-> 0,
     rule |-> "none", accuracy |-> 0, session |-> NoSession, result |-> "none",
     seen_balance |-> 0, seen_stock |-> 0, seen_available |-> FALSE,
     seen_ntx |-> 0, seen_npur |-> 0, seen_busy |-> FALSE]

EmptyBuf ==
    [wal |-> [u \in Users |-> BlankWallet],
     wrote |-> [u \in Users |-> "none"],
     net |-> [u \in Users |-> 0], tx |-> <<>>, mark |-> 0,
     pur |-> <<>>, prod_dirty |-> FALSE, quantity_available |-> 0,
     is_available |-> FALSE]

(* The call record with what the database showed when the call was made. *)
Observed(c) ==
    [c EXCEPT
       !.seen_balance = IF c.user \in Users THEN wallets[c.user].balance ELSE 0,
       !.seen_stock = IF c.product \in ProductIds
                      THEN products[c.product].quantity_available ELSE 0,
       !.seen_available = IF c.product \in ProductIds
                          THEN products[c.product].is_available ELSE FALSE,
       !.seen_ntx = Len(txs),
       !.seen_npur = Len(purchases),
       !.seen_busy = \E q \in Proc : pc[q] # "idle"]

(* ------------------------- request timezones ------------------------- *)

Absent == "absent"

None == "None"

Unresolved == "unresolved"

Deactivated == "deactivated"

(* Names zoneinfo.ZoneInfo accepts, and one it rejects.                    *)
ValidTimezones == {"UTC", "Europe/Paris", "Asia/Singapore", "Australia/Sydney"}

InvalidTimezone == "Invalid/Zone"

(* request.user: absent before the authentication middleware ran, the     *)
(* anonymous user (no timezone attribute), or a User row with its          *)
(* timezone column.                                                        *)
RequestUsers ==
    {[has_user |-> FALSE, is_authenticated |-> FALSE, timezone |-> Absent],
     [has_user |-> TRUE, is_authenticated |-> FALSE, timezone |-> Absent]}
    \cup {[has_user |-> TRUE, is_authenticated |-> TRUE, timezone |-> z] :
             z \in {"", "UTC", "Europe/Paris"}}

(* request.session.get('detected_timezone') and                            *)
(* request.META.get('HTTP_X_TIMEZONE'), Absent when the key is missing.    *)
Requests ==
    [user : RequestUsers,
     detected_timezone : {Absent, "Asia/Singapore", "Europe/Paris"},
     HTTP_X_TIMEZONE : {Absent, "Australia/Sydney", InvalidTimezone}]

NoRequest ==
    [user |-> [has_user |-> FALSE, is_authenticated |-> FALSE, timezone |-> Absent],
     detected_timezone |-> Absent, HTTP_X_TIMEZONE |-> Absent]

(* hasattr(request.user, 'timezone') and request.user.timezone             *)
HasSavedTimezone(r) ==
    /\ r.user.has_user /\ r.user.is_authenticated
    /\ r.user.timezone # Absent /\ r.user.timezone # ""

get_timezone_header_first(r) ==
    IF HasSavedTimezone(r) THEN r.user.timezone
    ELSE IF r.HTTP_X_TIMEZONE # Absent THEN r.HTTP_X_TIMEZONE
    ELSE IF r.detected_timezone # Absent THEN r.detected_timezone
    ELSE None

(* TimezoneMiddleware._get_timezone                                        *)
get_timezone(r) ==
    IF HasSavedTimezone(r) THEN r.user.timezone
    ELSE IF r.detected_timezone # Absent THEN r.detected_timezone
    ELSE IF r.HTTP_X_TIMEZONE # Absent THEN r.HTTP_X_TIMEZONE
    ELSE None

(* utils.timezone.get_user_timezone_from_request                          *)
get_user_timezone_from_request(r) ==
    IF HasSavedTimezone(r) THEN r.user.timezone
    ELSE IF r.detected_timezone # Absent THEN r.detected_timezone
    ELSE IF r.HTTP_X_TIMEZONE # Absent THEN r.HTTP_X_TIMEZONE
    ELSE "UTC"

(* utils.timezone.validate_timezone                                       *)
validate_timezone(tzname) == tzname \in ValidTimezones

(* TimezoneMiddleware.__call__ up to get_response.                         *)
TimezoneMiddleware ==
    /\ activated = Unresolved
    /\ LET tzname == get_timezone(request)
       IN activated' = IF tzname # None /\ validate_timezone(tzname)
                       THEN tzname ELSE Deactivated
    /\ UNCHANGED <<request, resolved>>

(* A view asks the utility for the timezone of the request.                *)
ResolveTimezone ==
    /\ resolved = Unresolved
    /\ resolved' = get_user_timezone_from_request(request)
    /\ UNCHANGED <<request, activated>>

(* The set_timezone view; the browser's next request carries the session   *)
(* and the user row as the view left them.                                 *)
set_timezone ==
    \E tz \in {"Asia/Singapore", "Europe/Paris", InvalidTimezone} :
       /\ validate_timezone(tz)
       /\ request' =
             [request EXCEPT
                !.detected_timezone = tz,
                !.user.timezone =
                   IF request.user.has_user /\ request.user.is_authenticated
                      /\ @ = "UTC"
                   THEN tz ELSE @]
       /\ request' # request
       /\ activated' = Unresolved
       /\ resolved' = Unresolved

(* ------------------------------ practice ----------------------------- *)

(* The question bank in the order of Question.Meta.ordering: one question  *)
(* that passes every filter of the requests below, one of the skill that   *)
(* fails the provider and type filters, one of the skill in another        *)
(* domain, and one of another skill.                                       *)
Questions == <<"q1", "q2", "q3", "q4">>

Catalogue ==
    [q1 |-> [skill_code |-> "CTC", domain_code |-> "CAS",
             provider_code |-> "cb", question_type |-> "mcq"],
     q2 |-> [skill_code |-> "CTC", domain_code |-> "CAS",
             provider_code |-> "kh", question_type |-> "spr"],
     q3 |-> [skill_code |-> "CTC", domain_code |-> "INI",
             provider_code |-> "cb", question_type |-> "mcq"],
     q4 |-> [skill_code |-> "WIC", domain_code |-> "CAS",
             provider_code |-> "cb", question_type |-> "mcq"]]

Range(s) == {s[i] : i \in 1..Len(s)}

QuestionIds == Range(Questions)

Reverse(s) == [i \in 1..Len(s) |-> s[Len(s) + 1 - i]]

(* "if qid not in seen: append": the first occurrence of each element.     *)
RECURSIVE Distinct(_)
Distinct(s) ==
    IF s = <<>> THEN <<>>
    ELSE LET d == Distinct(SubSeq(s, 1, Len(s) - 1))
             x == s[Len(s)]
         IN IF x \in Range(d) THEN d ELSE Append(d, x)

(* list.index(x)                                                           *)
IndexOf(s, x) == CHOOSE i \in 1..Len(s) : s[i] = x /\ \A j \in 1..(i - 1) : s[j] # x

(* The user who practises; every query of the views is for request.user.   *)
Student == "u1"

(* session_id of the request body: none, a session of the student's, or    *)
(* one PracticeSession.objects.get(id=..., user=request.user) does not     *)
(* find.                                                                   *)
NoSessionId == 0

ForeignSessionId == MaxSessions + 1

NewSession(total) ==
    [user |-> Student, status |-> "active", total_questions |-> total,
     questions_answered |-> 0, correct_answers |-> 0, total_time_seconds |-> 0]

NoParams ==
    [domain |-> None, skill |-> None, provider |-> None, type |-> None,
     question |-> None, resume |-> FALSE, mistakes |-> FALSE]

(* What the last request returned; answer tells whether its get_or_create *)
(* made the UserAnswer ("created"), found one ("kept") or was not reached.  *)
NoResponse ==
    [view |-> "none", status |-> 0, params |-> NoParams,
     question_ids |-> <<>>, initial_index |-> 0, total_questions |-> 0,
     session_id |-> NoSessionId, is_correct |-> FALSE, answer |-> None,
     mastered |-> FALSE]

NoLocal ==
    [question |-> None, session_id |-> NoSessionId, is_correct |-> FALSE,
     time_taken |-> 0, session |-> NewSession(0), created |-> FALSE]

(* The student's answers to question q, oldest first.                      *)
Attempts(log, q) == SelectSeq(log, LAMBDA a : a.question = q)

(* practice_view: "Build query".                                           *)
MistakeIds(params) ==
    {a.question : a \in
        {b \in Range(answers) :
            /\ ~b.is_correct
            /\ params.domain # None => Catalogue[b.question].domain_code = params.domain
            /\ params.skill # None => Catalogue[b.question].skill_code = params.skill}}

Selected(params, q) ==
    /\ is_active[q]
    /\ IF params.mistakes
       THEN q \in MistakeIds(params)
       ELSE /\ params.domain # None => Catalogue[q].domain_code = params.domain
            /\ params.skill # None => Catalogue[q].skill_code = params.skill
            /\ params.provider # None => Catalogue[q].provider_code = params.provider
            /\ params.type # None => Catalogue[q].question_type = params.type

Candidates(params) == SelectSeq(Questions, LAMBDA q : Selected(params, q))

(* practice_view, resume mode, step 1: the mastered questions of the       *)
(* skill, latest first (MasteredQuestion.Meta.ordering).                   *)
MasteredIds(params) ==
    Distinct(SelectSeq(Reverse(mastered),
                       LAMBDA q : /\ Catalogue[q].skill_code = params.skill
                                  /\ is_active[q]))

(* Step 2: the attempted questions of the skill that are not in the        *)
(* mastered list, latest answer first (UserAnswer.Meta.ordering).          *)
AttemptedNotMasteredIds(params) ==
    LET attempted == [i \in 1..Len(answers) |-> Reverse(answers)[i].question]
    IN Distinct(SelectSeq(attempted,
                          LAMBDA q : /\ Catalogue[q].skill_code = params.skill
                                     /\ q \notin Range(MasteredIds(params))))

(* Step 3: the questions of the query that are in neither list.            *)
FreshIds(params) ==
    SelectSeq(Candidates(params),
              LAMBDA q : /\ q \notin Range(MasteredIds(params))
                         /\ q \notin Range(AttemptedNotMasteredIds(params)))

ResumeOrdering(params) == params.resume /\ params.skill # None

(* "Build the ordered list: mastered -> fresh -> attempted", or the query  *)
(* in its default order.                                                   *)
OrderedIds(params) ==
    IF ResumeOrdering(params)
    THEN MasteredIds(params) \o FreshIds(params) \o AttemptedNotMasteredIds(params)
    ELSE Candidates(params)

resume_start_index(params) ==
    IF /\ ResumeOrdering(params)
       /\ params.question = None
       /\ Len(MasteredIds(params)) < Len(OrderedIds(params))
    THEN Len(MasteredIds(params)) ELSE 0

(* "Determine starting question and index": the list and the 0-based       *)
(* index sent to the page.                                                 *)
Served(params) ==
    LET question_ids == OrderedIds(params)
        q == params.question
        start == resume_start_index(params)
    IN IF q # None /\ question_ids # <<>>
       THEN IF q \in Range(question_ids)
            THEN [question_ids |-> question_ids,
                  initial_index |-> IndexOf(question_ids, q) - 1]
            ELSE IF /\ is_active[q]
                    /\ params.skill # None => Catalogue[q].skill_code = params.skill
                    /\ params.domain # None => Catalogue[q].domain_code = params.domain
            THEN [question_ids |-> <<q>> \o question_ids, initial_index |-> 0]
            ELSE [question_ids |-> question_ids, initial_index |-> 0]
       ELSE IF question_ids # <<>>
       THEN [question_ids |-> question_ids,
             initial_index |-> IF params.resume /\ start > 0
                                  /\ start < Len(question_ids)
                               THEN start ELSE 0]
       ELSE [question_ids |-> question_ids, initial_index |-> 0]

PracticeParams ==
    [domain : {None, "CAS"}, skill : {None, "CTC"}, provider : {None, "cb"},
     type : {None, "mcq"}, question : {None, "q2"},
     resume : BOOLEAN, mistakes : BOOLEAN]

Idle == \A p \in Proc : at[p] = "idle"

(* practice_view: it serves the list and creates the session.              *)
practice_view ==
    \E params \in PracticeParams :
       /\ Idle
       /\ Len(sessions) < MaxSessions
       /\ sessions' = Append(sessions, NewSession(Len(Candidates(params))))
       /\ response' =
             [NoResponse EXCEPT
                !.view = "practice_view", !.status = 200, !.params = params,
                !.question_ids = Served(params).question_ids,
                !.initial_index = Served(params).initial_index,
                !.total_questions = Len(Candidates(params)),
                !.session_id = Len(sessions) + 1]
       /\ UNCHANGED <<is_active, answers, mastered, at, local>>

(* check_answer up to "session = PracticeSession.objects.get(...)".        *)
check_answer(p) ==
    \E q \in QuestionIds, session_id \in 0..(MaxSessions + 1),
       is_correct \in BOOLEAN, time_taken \in 1..MaxTime :
       /\ at[p] = "idle"
       /\ session_id \in {NoSessionId, ForeignSessionId} \cup (1..Len(sessions))
       /\ Len(answers) + Cardinality({r \in Proc : at[r] # "idle"}) < MaxAnswers
       /\ LET answered == [NoResponse EXCEPT
                             !.view = "check_answer", !.is_correct = is_correct]
          IN IF ~is_active[q]
             THEN /\ response' = [answered EXCEPT !.status = 400]
                  /\ UNCHANGED <<at, local>>
             ELSE IF session_id \in {NoSessionId, ForeignSessionId}
             THEN /\ response' = [answered EXCEPT !.status = 200]
                  /\ UNCHANGED <<at, local>>
             ELSE /\ at' = [at EXCEPT ![p] = "answer"]
                  /\ local' = [local EXCEPT ![p] =
                                 [question |-> q, session_id |-> session_id,
                                  is_correct |-> is_correct,
                                  time_taken |-> time_taken,
                                  session |-> sessions[session_id],
                                  created |-> FALSE]]
                  /\ UNCHANGED response
       /\ UNCHANGED <<is_active, sessions, answers, mastered>>

Answered(p) ==
    [NoResponse EXCEPT
       !.view = "check_answer", !.status = 200,
       !.is_correct = local[p].is_correct,
       !.answer = IF local[p].created THEN "created" ELSE "kept"]

(* UserAnswer.objects.get_or_create(session=..., question=..., defaults).  *)
RecordAnswer(p) ==
    /\ at[p] = "answer"
    /\ LET l == local[p]
           created == \A a \in Range(answers) :
                         ~(a.session = l.session_id /\ a.question = l.question)
       IN IF created
          THEN /\ answers' = Append(answers,
                                    [session |-> l.session_id,
                                     question |-> l.question,
                                     is_correct |-> l.is_correct,
                                     time_taken_seconds |-> l.time_taken])
               /\ local' = [local EXCEPT ![p].created = TRUE]
               /\ at' = [at EXCEPT ![p] = "save"]
               /\ UNCHANGED response
          ELSE /\ response' = Answered(p)
               /\ at' = [at EXCEPT ![p] = "idle"]
               /\ local' = [local EXCEPT ![p] = NoLocal]
               /\ UNCHANGED answers
    /\ UNCHANGED <<is_active, sessions, mastered>>

Counted_without_correct(session, is_correct, time_taken) ==
    [session EXCEPT !.questions_answered = @ + 1,
                    !.total_time_seconds = @ + time_taken]

(* "Update session statistics", on the object the request loaded.          *)
Counted(session, is_correct, time_taken) ==
    [session EXCEPT !.questions_answered = @ + 1,
                    !.correct_answers = IF is_correct THEN @ + 1 ELSE @,
                    !.total_time_seconds = @ + time_taken]

(* session.save(): every column of the row is written from the object.     *)
SaveSession(p) ==
    /\ at[p] = "save"
    /\ LET l == local[p]
       IN /\ sessions' = [sessions EXCEPT ![l.session_id] =
                            Counted(l.session, l.is_correct, l.time_taken)]
          /\ IF l.is_correct
             THEN /\ at' = [at EXCEPT ![p] = "master"]
                  /\ UNCHANGED <<response, local>>
             ELSE /\ response' = Answered(p)
                  /\ at' = [at EXCEPT ![p] = "idle"]
                  /\ local' = [local EXCEPT ![p] = NoLocal]
    /\ UNCHANGED <<is_active, answers, mastered>>

FirstAttempt_any_correct(total_attempts) == TRUE

(* "If this is the first attempt ever and it's correct - auto-master".     *)
FirstAttempt(total_attempts) == total_attempts = 1

(* The "Mastered logic" of check_answer for a correct answer.              *)
AutoMaster(p) ==
    /\ at[p] = "master"
    /\ LET q == local[p].question
           total_attempts == Len(Attempts(answers, q))
       IN mastered' = IF FirstAttempt(total_attempts) /\ q \notin Range(mastered)
                      THEN Append(mastered, q) ELSE mastered
    /\ response' = Answered(p)
    /\ at' = [at EXCEPT ![p] = "idle"]
    /\ local' = [local EXCEPT ![p] = NoLocal]
    /\ UNCHANGED <<is_active, sessions, answers>>

(* master_question: toggle the mastered mark of a question.                *)
master_question ==
    \E q \in QuestionIds :
       LET all_attempts == Attempts(answers, q)
           is_mastered == q \in Range(mastered)
           has_wrong_attempt == \E a \in Range(all_attempts) : ~a.is_correct
           has_correct_attempt == \E a \in Range(all_attempts) : a.is_correct
           answer(status, now) ==
              [NoResponse EXCEPT !.view = "master_question", !.status = status,
                                 !.mastered = now]
           unmark == SelectSeq(mastered, LAMBDA m : m # q)
       IN /\ Idle
          /\ IF all_attempts = <<>>
             THEN /\ response' = answer(400, FALSE)
                  /\ UNCHANGED mastered
             ELSE IF Len(all_attempts) = 1 /\ all_attempts[1].is_correct
             THEN IF is_mastered
                  THEN /\ mastered' = unmark
                       /\ response' = answer(200, FALSE)
                  ELSE /\ response' = answer(400, FALSE)
                       /\ UNCHANGED mastered
             ELSE IF ~(has_wrong_attempt /\ has_correct_attempt)
             THEN /\ response' = answer(400, FALSE)
                  /\ UNCHANGED mastered
             ELSE IF is_mastered
             THEN /\ mastered' = unmark
                  /\ response' = answer(200, FALSE)
             ELSE /\ mastered' = Append(mastered, q)
                  /\ response' = answer(200, TRUE)
          /\ UNCHANGED <<is_active, sessions, answers, at, local>>

(* Staff switch a question off in the question bank.                       *)
deactivate_question ==
    \E q \in QuestionIds :
       /\ Idle
       /\ is_active[q]
       /\ Cardinality({x \in QuestionIds : ~is_active[x]}) < MaxDeactivated
       /\ is_active' = [is_active EXCEPT ![q] = FALSE]
       /\ UNCHANGED <<sessions, answers, mastered, response, at, local>>

(* The question bank, and the sessions two earlier visits of the practice  *)
(* page (without filters) created.                                         *)
PracticeIdle ==
    /\ is_active = [q \in QuestionIds |-> TRUE]
    /\ sessions = <<NewSession(Len(Questions)), NewSession(Len(Questions))>>
    /\ answers = <<>>
    /\ mastered = <<>>
    /\ response = NoResponse
    /\ at = [p \in Proc |-> "idle"]
    /\ local = [p \in Proc |-> NoLocal]

NoSite ==
    /\ request = NoRequest
    /\ activated = Unresolved
    /\ resolved = Unresolved
    /\ PracticeIdle

(* ------------------------------- Init -------------------------------- *)

InitWallets(balances) == {BlankWallet} \cup {NewWallet(b) : b \in balances}

(* A database staff have set up through the admin (wallets with a         *)
(* balance, the catalogue) before any service call; the model takes at     *)
(* most limit calls that change the ledger.  initial_stock keeps the       *)
(* quantity a product started with; no call reads or writes it.            *)
InitWith(limit, balances, stocks) ==
    /\ call_limit = limit
    /\ wallets \in [Users -> InitWallets(balances)]
    /\ txs = <<>>
    /\ \E s \in stocks :
         products = [i \in ProductIds |->
                       IF i = "badge"
                       THEN [price |-> 1, is_available |-> TRUE,
                             is_limited |-> TRUE, quantity_available |-> s,
                             initial_stock |-> s]
                       ELSE [price |-> 2, is_available |-> TRUE,
                             is_limited |-> FALSE, quantity_available |-> 0,
                             initial_stock |-> 0]]
    /\ purchases = <<>>
    /\ wlock = [u \in Users |-> NoProc]
    /\ plock = [i \in ProductIds |-> NoProc]
    /\ pc = [p \in Proc |-> "idle"]
    /\ call = [p \in Proc |-> NoCall]
    /\ buf = [p \in Proc |-> EmptyBuf]
    /\ finished = [p \in Proc |-> NoCall]
    /\ expected = [u \in Users |-> wallets[u].balance]
    /\ admin_ops = 0
    /\ NoSite

Init == InitWith(MaxCalls, {0, InitBalance}, 1..MaxStock)

(* --------------------- DeltaService: pure parts ---------------------- *)

WalletStatusError_ignoring_frozen(w) ==
    IF ~w.is_active THEN "Wallet is not active" ELSE "ok"

(* add_delta / deduct_delta: "Validate wallet status".                     *)
WalletStatusError(w) ==
    IF ~w.is_active THEN "Wallet is not active"
    ELSE IF w.is_frozen THEN "Wallet is frozen"
    ELSE "ok"

AmountError_allowing_zero(amount) ==
    IF amount < 0 THEN "Amount must be positive" ELSE "ok"

(* add_delta / deduct_delta: "Validate amount".                            *)
AmountError(amount) ==
    IF amount <= 0 THEN "Amount must be positive" ELSE "ok"

SufficientBalance_unchecked(w, amount) == TRUE

(* deduct_delta: "Check sufficient balance".                               *)
SufficientBalance(w, amount) == ~(w.balance < amount)

Credited_without_total(w, amount) == [w EXCEPT !.balance = @ + amount]

Credited_twice(w, amount) ==
    [w EXCEPT !.balance = @ + amount + amount, !.total_earned = @ + amount]

(* add_delta: "Update wallet".                                             *)
Credited(w, amount) ==
    [w EXCEPT !.balance = @ + amount, !.total_earned = @ + amount]

Debited_without_total(w, amount) == [w EXCEPT !.balance = @ - amount]

(* deduct_delta: "Update wallet".                                          *)
Debited(w, amount) ==
    [w EXCEPT !.balance = @ - amount, !.total_spent = @ + amount]

(* DeltaTransaction.objects.create(...) of add_delta and deduct_delta.     *)
NewTransaction(u, type, amount, before, after, ref_id, ref_type) ==
    [wallet |-> u, transaction_type |-> type, amount |-> amount,
     balance_before |-> before, balance_after |-> after,
     status |-> "completed", related_user |-> NoUser,
     reference_id |-> ref_id, reference_type |-> ref_type,
     description |-> "None", is_reversed |-> FALSE, reversed_by |-> 0]

ReversalError_ignoring_reversed(transaction) ==
    IF transaction.status # "completed"
    THEN "Can only reverse completed transactions" ELSE "ok"

(* reverse_transaction: the two checks before the wallet is touched.       *)
ReversalError(transaction) ==
    IF transaction.is_reversed THEN "Transaction already reversed"
    ELSE IF transaction.status # "completed"
    THEN "Can only reverse completed transactions"
    ELSE "ok"

(* reverse_transaction: "Determine reversal operation".                    *)
ReversedByDeduct(type) == type \in {"earn", "bonus", "admin_add", "transfer"}

(* award_for_activity: the rule lookup and its conditions.                 *)
ActiveRules(name) == {r \in EarningRules : r.name = name /\ r.is_active}

(* kwargs.get('accuracy', 0)                                               *)
SuppliedAccuracy(accuracy) == IF accuracy = NotSupplied THEN 0 ELSE accuracy

ConditionsMet_ignored(r, accuracy) == TRUE

ConditionsMet(r, accuracy) ==
    ~(r.has_min_accuracy /\ SuppliedAccuracy(accuracy) < r.min_accuracy)

(* The reference the service passes to add_delta / deduct_delta.           *)
ReferenceId(c) ==
    IF c.op = "reverse_transaction" THEN ToString(c.tx)
    ELSE IF c.op = "purchase_product" THEN c.product
    ELSE IF c.op = "award_for_activity" THEN c.session
    ELSE "None"

ReferenceType(c) ==
    IF c.op = "reverse_transaction" THEN "transaction_reversal"
    ELSE IF c.op = "purchase_product" THEN "product_purchase"
    ELSE IF c.op = "award_for_activity" /\ c.session # NoSession
    THEN "practice_session"
    ELSE "None"

(* The description on the record: the rule's, for an award.                *)
Description(c) == IF c.op = "award_for_activity" THEN c.rule ELSE "None"

(* The wallet a call credits: the recipient of a transfer, else its user.  *)
CreditTarget(c) == IF c.op = "transfer_delta" THEN c.to ELSE c.user

(* transfer_delta wraps whatever add_delta raises ("except Exception").    *)
CreditError(c, msg) == IF c.op = "transfer_delta" THEN "Transfer failed" ELSE msg

(* --------------------- transactions and row locks -------------------- *)

InFlight(p) == pc[p] # "idle"

(* The calls that have committed: one per record of the log, a transfer  *)
(* counted once (by the record of its recipient).                          *)
CommittedCalls ==
    Len(txs) - Cardinality({i \in 1..Len(txs) :
                              /\ txs[i].transaction_type = "transfer"
                              /\ txs[i].balance_after > txs[i].balance_before})

(* The model stops taking calls once call_limit of them changed the       *)
(* ledger.                                                                 *)
CallBudget ==
    CommittedCalls + Cardinality({q \in Proc : InFlight(q)}) < call_limit

RowLockFree_unlocked(u, p) == TRUE

(* select_for_update on a wallet row: it waits while another holds it.     *)
RowLockFree(u, p) == wlock[u] \in {NoProc, p}

ProductLockFree_unlocked(i, p) == TRUE

(* select_for_update on the row of a limited product.                      *)
ProductLockFree(i, p) == plock[i] \in {NoProc, p}

Released(lock, p) == [k \in DOMAIN lock |-> IF lock[k] = p THEN NoProc ELSE lock[k]]

(* The row as the call sees it: its own write, else the committed row.     *)
ReadWallet(p, u) == IF buf[p].wrote[u] # "none" THEN buf[p].wal[u] ELSE wallets[u]

(* A call starts: the caller's arguments c, first step at label first.    *)
(* finished[p] keeps worker p's last call and its result until p's next    *)
(* call starts.                                                            *)
Begin(p, c, first) ==
    /\ pc[p] = "idle"
    /\ CallBudget
    /\ pc' = [pc EXCEPT ![p] = first]
    /\ call' = [call EXCEPT ![p] = Observed(c)]
    /\ finished' = [finished EXCEPT ![p] = NoCall]
    /\ UNCHANGED <<db, wlock, plock, buf, expected, admin_ops, call_limit, site>>

(* A call returns or raises before it touched the database.                *)
Finish(p, c, r) ==
    /\ pc[p] = "idle"
    /\ finished' = [finished EXCEPT ![p] = [Observed(c) EXCEPT !.result = r]]
    /\ UNCHANGED <<db, wlock, plock, pc, call, buf, expected, admin_ops, call_limit, site>>

SavedWallet_balance_only(old, new, field) ==
    IF field = "none" THEN old ELSE [old EXCEPT !.balance = new.balance]

(* wallet.save(update_fields=[...]) as the commit makes it visible.        *)
SavedWallet(old, new, field) ==
    IF field = "total_earned"
    THEN [old EXCEPT !.balance = new.balance, !.total_earned = new.total_earned]
    ELSE IF field = "total_spent"
    THEN [old EXCEPT !.balance = new.balance, !.total_spent = new.total_spent]
    ELSE old

MarkReversed_voiding(log, i, by) ==
    IF i = 0 THEN log
    ELSE [log EXCEPT ![i].is_reversed = TRUE, ![i].reversed_by = by,
                     ![i].status = "reversed"]

(* transaction.save(update_fields=['is_reversed', 'reversed_by']).         *)
MarkReversed(log, i, by) ==
    IF i = 0 THEN log
    ELSE [log EXCEPT ![i].is_reversed = TRUE, ![i].reversed_by = by]

(* What a commit makes visible: the buffered rows and records.            *)
CommitWrites(p) ==
    LET b == buf[p]
        first == Len(txs) + 1
    IN /\ wallets' = [u \in Users |->
                        SavedWallet(wallets[u], b.wal[u], b.wrote[u])]
       /\ txs' = MarkReversed(txs, b.mark, first) \o b.tx
       /\ purchases' = purchases \o
              [k \in DOMAIN b.pur |-> [b.pur[k] EXCEPT !.transaction = first]]
       /\ products' = IF b.prod_dirty
                      THEN [products EXCEPT
                              ![call[p].product].quantity_available = b.quantity_available,
                              ![call[p].product].is_available = b.is_available]
                      ELSE products
       /\ expected' = [u \in Users |-> expected[u] + b.net[u]]

Raise_keeping_writes(p, msg) ==
    /\ pc' = [pc EXCEPT ![p] = "idle"]
    /\ finished' = [finished EXCEPT ![p] = [call[p] EXCEPT !.result = msg]]
    /\ call' = [call EXCEPT ![p] = NoCall]
    /\ buf' = [buf EXCEPT ![p] = EmptyBuf]
    /\ wlock' = Released(wlock, p)
    /\ plock' = Released(plock, p)
    /\ CommitWrites(p)
    /\ UNCHANGED <<admin_ops, call_limit, site>>

(* An exception leaves the outermost atomic block: rollback.               *)
Raise(p, msg) ==
    /\ pc' = [pc EXCEPT ![p] = "idle"]
    /\ finished' = [finished EXCEPT ![p] = [call[p] EXCEPT !.result = msg]]
    /\ call' = [call EXCEPT ![p] = NoCall]
    /\ buf' = [buf EXCEPT ![p] = EmptyBuf]
    /\ wlock' = Released(wlock, p)
    /\ plock' = Released(plock, p)
    /\ UNCHANGED <<db, expected, admin_ops, call_limit, site>>

(* ------------------- the steps inside an atomic call ----------------- *)

(* What the body of add_delta leaves in the call's write buffer.           *)
AfterCredit(b, c, u, w) ==
    LET neww == Credited(w, c.amount)
        rec  == [NewTransaction(u, c.type, c.amount, w.balance, neww.balance,
                                ReferenceId(c), ReferenceType(c))
                   EXCEPT !.description = Description(c)]
        recipient_tx == IF c.op = "transfer_delta"
                        THEN [rec EXCEPT !.related_user = c.user] ELSE rec
        logged == IF c.op = "transfer_delta"
                  THEN [k \in DOMAIN b.tx |-> [b.tx[k] EXCEPT !.related_user = c.to]]
                  ELSE b.tx
    IN [b EXCEPT !.wal[u] = neww,
                 !.wrote[u] = "total_earned",
                 !.net[u] = @ + c.amount,
                 !.tx = Append(logged, recipient_tx),
                 !.mark = IF c.op = "reverse_transaction" THEN c.tx ELSE @]

StockLeft_unchanged(quantity_available, quantity) == quantity_available

(* purchase_product: "product.quantity_available -= quantity".             *)
StockLeft(quantity_available, quantity) == quantity_available - quantity

StillAvailable_always(is_available, left) == is_available

(* purchase_product: "if product.quantity_available <= 0:                  *)
(* product.is_available = False".                                          *)
StillAvailable(is_available, left) == IF left <= 0 THEN FALSE ELSE is_available

(* What the body of deduct_delta, and the rest of purchase_product after   *)
(* it, leave in the call's write buffer.                                   *)
AfterDebit(b, c, u, w) ==
    LET neww == Debited(w, c.amount)
        rec  == NewTransaction(u, c.type, c.amount, w.balance, neww.balance,
                               ReferenceId(c), ReferenceType(c))
        limited == c.op = "purchase_product" /\ products[c.product].is_limited
        left == StockLeft(b.quantity_available, c.quantity)
    IN [b EXCEPT !.wal[u] = neww,
                 !.wrote[u] = "total_spent",
                 !.net[u] = @ - c.amount,
                 !.tx = Append(@, rec),
                 !.mark = IF c.op = "reverse_transaction" THEN c.tx ELSE @,
                 !.pur = IF c.op = "purchase_product"
                         THEN Append(@, [user |-> u, product |-> c.product,
                                         transaction |-> 0,
                                         quantity |-> c.quantity,
                                         total_price |-> c.amount])
                         ELSE @,
                 !.prod_dirty = limited,
                 !.quantity_available = IF limited THEN left ELSE @,
                 !.is_available = IF limited THEN StillAvailable(@, left) ELSE @]

(* purchase_product up to "Calculate total price": lock a limited          *)
(* product's row, read the product, validate availability and stock.       *)
LockProduct(p) ==
    /\ pc[p] = "product"
    /\ LET c == call[p]
           i == c.product
           product == products[i]
       IN /\ product.is_limited => ProductLockFree(i, p)
          /\ IF ~product.is_available
             THEN Raise(p, "Product is not available")
             ELSE IF product.is_limited
                     /\ (product.quantity_available = 0
                         \/ product.quantity_available < c.quantity)
             THEN Raise(p, "Insufficient product quantity available")
             ELSE /\ plock' = IF product.is_limited
                              THEN [plock EXCEPT ![i] = p] ELSE plock
                  /\ call' = [call EXCEPT ![p].amount = product.price * c.quantity]
                  /\ buf' = [buf EXCEPT
                               ![p].quantity_available = product.quantity_available,
                               ![p].is_available = product.is_available]
                  /\ pc' = [pc EXCEPT ![p] = "debit"]
                  /\ UNCHANGED <<db, wlock, finished, expected, admin_ops, call_limit, site>>

(* The body of deduct_delta, run for the call's user.                      *)
DebitWallet(p) ==
    /\ pc[p] = "debit"
    /\ LET c == call[p]
           u == c.user
       IN IF AmountError(c.amount) # "ok" THEN Raise(p, AmountError(c.amount))
          ELSE IF ~wallets[u].exists THEN Raise(p, "DoesNotExist")
          ELSE /\ RowLockFree(u, p)
               /\ LET w == ReadWallet(p, u)
                  IN IF WalletStatusError(w) # "ok"
                     THEN Raise(p, WalletStatusError(w))
                     ELSE IF ~SufficientBalance(w, c.amount)
                     THEN Raise(p, "Insufficient balance")
                     ELSE /\ wlock' = [wlock EXCEPT ![u] = p]
                          /\ buf' = [buf EXCEPT ![p] = AfterDebit(buf[p], c, u, w)]
                          /\ pc' = [pc EXCEPT ![p] =
                                      IF c.op = "transfer_delta"
                                      THEN "credit" ELSE "commit"]
                          /\ UNCHANGED <<db, plock, call, finished, expected, admin_ops, call_limit, site>>

(* The body of add_delta, run for the wallet the call credits.             *)
CreditWallet(p) ==
    /\ pc[p] = "credit"
    /\ LET c == call[p]
           u == CreditTarget(c)
       IN IF AmountError(c.amount) # "ok"
          THEN Raise(p, CreditError(c, AmountError(c.amount)))
          ELSE IF ~wallets[u].exists
          THEN Raise(p, CreditError(c, "DoesNotExist"))
          ELSE /\ RowLockFree(u, p)
               /\ LET w == ReadWallet(p, u)
                  IN IF WalletStatusError(w) # "ok"
                     THEN Raise(p, CreditError(c, WalletStatusError(w)))
                     ELSE /\ wlock' = [wlock EXCEPT ![u] = p]
                          /\ buf' = [buf EXCEPT ![p] = AfterCredit(buf[p], c, u, w)]
                          /\ pc' = [pc EXCEPT ![p] = "commit"]
                          /\ UNCHANGED <<db, plock, call, finished, expected, admin_ops, call_limit, site>>

(* The outermost atomic block exits normally: the writes become visible    *)
(* and the row locks are released.                                         *)
Commit(p) ==
    /\ pc[p] = "commit"
    /\ CommitWrites(p)
    /\ pc' = [pc EXCEPT ![p] = "idle"]
    /\ finished' = [finished EXCEPT ![p] = [call[p] EXCEPT !.result = "ok"]]
    /\ call' = [call EXCEPT ![p] = NoCall]
    /\ buf' = [buf EXCEPT ![p] = EmptyBuf]
    /\ wlock' = Released(wlock, p)
    /\ plock' = Released(plock, p)
    /\ UNCHANGED <<admin_ops, call_limit, site>>

(* Two transfers in opposite directions each hold their sender's row and   *)
(* wait for the other's: the database aborts one of the waiting            *)
(* statements, which transfer_delta reports as a failed transfer.          *)
DeadlockAbort(p) ==
    /\ pc[p] = "credit"
    /\ \E q \in Proc \ {p} :
         /\ pc[q] = "credit"
         /\ wlock[CreditTarget(call[p])] = q
         /\ wlock[CreditTarget(call[q])] = p
    /\ Raise(p, CreditError(call[p], "deadlock detected"))

(* --------------------------- the service calls ----------------------- *)

get_or_create_wallet(u) ==
    /\ ~wallets[u].exists
    /\ wallets' = [wallets EXCEPT ![u] = NewWallet(0)]
    /\ UNCHANGED <<txs, products, purchases, wlock, plock,
                   pc, call, buf, finished, expected, admin_ops, call_limit, site>>

add_delta(p) ==
    \E u \in Users, a \in (0 - MaxRefused)..MaxAmount, t \in CreditTypes :
       Begin(p, [NoCall EXCEPT !.op = "add_delta", !.user = u,
                               !.amount = a, !.type = t], "credit")

deduct_delta(p) ==
    \E u \in Users, a \in (0 - MaxRefused)..MaxAmount, t \in DebitTypes :
       Begin(p, [NoCall EXCEPT !.op = "deduct_delta", !.user = u,
                               !.amount = a, !.type = t], "debit")

transfer_delta(p) ==
    \E from_user \in Users, to_user \in Users, a \in (0 - MaxRefused)..MaxAmount :
       LET c == [NoCall EXCEPT !.op = "transfer_delta", !.user = from_user,
                               !.to = to_user, !.amount = a,
                               !.type = "transfer"]
       IN IF from_user = to_user
          THEN Finish(p, c, "Cannot transfer to yourself")
          ELSE Begin(p, c, "debit")

(* The caller hands in its copy of transaction i, loaded when it calls.    *)
reverse_transaction(p) ==
    \E i \in 1..Len(txs) :
       LET transaction == txs[i]
           c == [NoCall EXCEPT !.op = "reverse_transaction",
                               !.user = transaction.wallet,
                               !.amount = transaction.amount,
                               !.type = "reversal", !.tx = i,
                               !.copy_reversed = transaction.is_reversed,
                               !.copy_status = transaction.status]
       IN IF ReversalError(transaction) # "ok"
          THEN Finish(p, c, ReversalError(transaction))
          ELSE IF ReversedByDeduct(transaction.transaction_type)
          THEN Begin(p, c, "debit")
          ELSE Begin(p, c, "credit")

award_for_activity(p) ==
    \E u \in Users, input \in AwardInputs, session \in Sessions :
       LET name == input[1]
           accuracy == input[2]
           c == [NoCall EXCEPT !.op = "award_for_activity", !.user = u,
                               !.type = "earn", !.rule = name,
                               !.accuracy = accuracy, !.session = session]
       IN IF ActiveRules(name) = {}
          THEN Finish(p, c, "None")
          ELSE LET rule == CHOOSE r \in ActiveRules(name) : TRUE
               IN IF ~ConditionsMet(rule, accuracy)
                  THEN Finish(p, c, "None")
                  ELSE Begin(p, [c EXCEPT !.amount = rule.amount], "credit")

purchase_product(p) ==
    \E u \in Users, i \in ProductIds, quantity \in 1..MaxQuantity :
       Begin(p, [NoCall EXCEPT !.op = "purchase_product", !.user = u,
                               !.type = "spend", !.product = i,
                               !.quantity = quantity], "product")

(* The transfer and purchase views: the status of the JSON response for   *)
(* what the service call returned or raised (ValidationError is answered   *)
(* 400, any other exception 500).                                          *)
HttpStatus(result) ==
    IF result = "ok" THEN 200
    ELSE IF result \in ValidationErrors THEN 400
    ELSE 500

(* ------------------- DeltaWalletAdmin's bulk actions ----------------- *)

(* queryset.update(...) writes the row, so it waits for the row's lock.    *)
AdminUpdate(u, w) ==
    /\ wallets[u].exists
    /\ wlock[u] = NoProc
    /\ w # wallets[u]
    /\ admin_ops < MaxAdminOps
    /\ admin_ops' = admin_ops + 1
    /\ wallets' = [wallets EXCEPT ![u] = w]
    /\ UNCHANGED <<txs, products, purchases, wlock, plock,
                   pc, call, buf, finished, expected, call_limit, site>>

freeze_wallets == \E u \in Users : AdminUpdate(u, [wallets[u] EXCEPT !.is_frozen = TRUE])

unfreeze_wallets == \E u \in Users : AdminUpdate(u, [wallets[u] EXCEPT !.is_frozen = FALSE])

deactivate_wallets == \E u \in Users : AdminUpdate(u, [wallets[u] EXCEPT !.is_active = FALSE])

activate_wallets == \E u \in Users : AdminUpdate(u, [wallets[u] EXCEPT !.is_active = TRUE])

(* --------------------------- specifications -------------------------- *)

(* One request at a time: a single worker serves every call, while staff   *)
(* use the admin and wallets are created on first access.                  *)
Worker == "p1"

Next ==
    \/ \E u \in Users : get_or_create_wallet(u)
    \/ add_delta(Worker)
    \/ deduct_delta(Worker)
    \/ transfer_delta(Worker)
    \/ reverse_transaction(Worker)
    \/ award_for_activity(Worker)
    \/ purchase_product(Worker)
    \/ LockProduct(Worker)
    \/ DebitWallet(Worker)
    \/ CreditWallet(Worker)
    \/ Commit(Worker)
    \/ freeze_wallets
    \/ unfreeze_wallets
    \/ deactivate_wallets
    \/ activate_wallets

Spec == Init /\ [][Next]_vars

(* Two requests in flight at once: each worker of Proc serves one call,    *)
(* and the steps of the two calls interleave in every possible way.        *)
Fresh(p) == pc[p] = "idle" /\ finished[p] = NoCall

RaceNext ==
    \/ \E p \in Proc : Fresh(p) /\ add_delta(p)
    \/ \E p \in Proc : Fresh(p) /\ deduct_delta(p)
    \/ \E p \in Proc : Fresh(p) /\ transfer_delta(p)
    \/ \E p \in Proc : Fresh(p) /\ reverse_transaction(p)
    \/ \E p \in Proc : Fresh(p) /\ award_for_activity(p)
    \/ \E p \in Proc : Fresh(p) /\ purchase_product(p)
    \/ \E p \in Proc : LockProduct(p)
    \/ \E p \in Proc : DebitWallet(p)
    \/ \E p \in Proc : CreditWallet(p)
    \/ \E p \in Proc : Commit(p)
    \/ \E p \in Proc : DeadlockAbort(p)

RaceInit == InitWith(MaxCalls, 0..InitBalance, 0..MaxRaceStock)

RaceSpec == RaceInit /\ [][RaceNext]_vars

(* The ledger calls alone (no shop, no rules, no staff), one request at a  *)
(* time, followed one call further.                                        *)
LedgerInit == InitWith(MaxLedgerCalls, {0, InitBalance}, 1..MaxStock)

LedgerNext ==
    \/ add_delta(Worker)
    \/ deduct_delta(Worker)
    \/ transfer_delta(Worker)
    \/ reverse_transaction(Worker)
    \/ DebitWallet(Worker)
    \/ CreditWallet(Worker)
    \/ Commit(Worker)

LedgerSpec == LedgerInit /\ [][LedgerNext]_vars

(* Two reversals in flight at once: after one ledger call has left a       *)
(* record, each worker of Proc calls reverse_transaction once, with the    *)
(* copy of the record it loaded when it called.                            *)
NotYetReversing(p) == pc[p] = "idle" /\ finished[p].op # "reverse_transaction"

ReversalRaceInit == InitWith(MaxLedgerCalls, 0..InitBalance, 1..MaxStock)

ReversalRaceNext ==
    \/ txs = <<>> /\ add_delta(Worker)
    \/ txs = <<>> /\ deduct_delta(Worker)
    \/ \E p \in Proc : NotYetReversing(p) /\ reverse_transaction(p)
    \/ \E p \in Proc : DebitWallet(p)
    \/ \E p \in Proc : CreditWallet(p)
    \/ \E p \in Proc : Commit(p)

ReversalRaceSpec == ReversalRaceInit /\ [][ReversalRaceNext]_vars

(* The ledger as a fresh deployment has it, for the specifications of the  *)
(* site's other parts, which never touch it.                               *)
NoLedger ==
    /\ call_limit = 0
    /\ wallets = [u \in Users |-> BlankWallet]
    /\ txs = <<>>
    /\ products = [i \in ProductIds |->
                     [price |-> 1, is_available |-> TRUE, is_limited |-> FALSE,
                      quantity_available |-> 0, initial_stock |-> 0]]
    /\ purchases = <<>>
    /\ wlock = [u \in Users |-> NoProc]
    /\ plock = [i \in ProductIds |-> NoProc]
    /\ pc = [p \in Proc |-> "idle"]
    /\ call = [p \in Proc |-> NoCall]
    /\ buf = [p \in Proc |-> EmptyBuf]
    /\ finished = [p \in Proc |-> NoCall]
    /\ expected = [u \in Users |-> 0]
    /\ admin_ops = 0

ledger == <<wallets, txs, products, purchases, wlock, plock,
            pc, call, buf, finished, expected, admin_ops, call_limit>>

(* Requests from every combination of timezone sources, each passed        *)
(* through the middleware and the utility, and the set_timezone view.      *)
TimezoneInit ==
    /\ NoLedger
    /\ request \in Requests
    /\ activated = Unresolved
    /\ resolved = Unresolved
    /\ PracticeIdle

TimezoneNext ==
    \/ TimezoneMiddleware /\ UNCHANGED <<ledger, practice>>
    \/ ResolveTimezone /\ UNCHANGED <<ledger, practice>>
    \/ set_timezone /\ UNCHANGED <<ledger, practice>>

TimezoneSpec == TimezoneInit /\ [][TimezoneNext]_vars

(* The practice player used by one student, one request at a time, while  *)
(* staff edit the question bank: the student answers and marks questions   *)
(* in the sessions there are, then opens the practice page.                *)
Practising == Len(sessions) < MaxSessions

PracticeInit ==
    /\ NoLedger
    /\ NoSite

timezones == <<request, activated, resolved>>

PracticeNext ==
    \/ practice_view /\ UNCHANGED <<ledger, timezones>>
    \/ Practising /\ check_answer(Worker) /\ UNCHANGED <<ledger, timezones>>
    \/ Practising /\ RecordAnswer(Worker) /\ UNCHANGED <<ledger, timezones>>
    \/ Practising /\ SaveSession(Worker) /\ UNCHANGED <<ledger, timezones>>
    \/ Practising /\ AutoMaster(Worker) /\ UNCHANGED <<ledger, timezones>>
    \/ Practising /\ master_question /\ UNCHANGED <<ledger, timezones>>
    \/ Practising /\ deactivate_question /\ UNCHANGED <<ledger, timezones>>

PracticeSpec == PracticeInit /\ [][PracticeNext]_vars

(* Two requests of the student's browser answer questions at once.         *)
PracticeRaceNext ==
    \/ \E p \in Proc : check_answer(p) /\ UNCHANGED <<ledger, timezones>>
    \/ \E p \in Proc : RecordAnswer(p) /\ UNCHANGED <<ledger, timezones>>
    \/ \E p \in Proc : SaveSession(p) /\ UNCHANGED <<ledger, timezones>>
    \/ \E p \in Proc : AutoMaster(p) /\ UNCHANGED <<ledger, timezones>>

PracticeRaceSpec == PracticeInit /\ [][PracticeRaceNext]_vars

(* ------------------------------ properties --------------------------- *)

(* Worker p's call ends in this step (it returns or raises).               *)
Ended(p) == finished'[p] # finished[p] /\ finished'[p].op # "none"

Usable(w) == w.exists /\ w.is_active /\ ~w.is_frozen

(* The two workers' calls were in flight at the same time.                 *)
Overlapped ==
    /\ \A p \in Proc : finished[p].op # "none"
    /\ \E p \in Proc : finished[p].seen_busy

(* C1: in every reachable state every wallet's balance is >= 0, whatever   *)
(* calls (successful or failing) were made on whatever wallets.            *)
C1_BalanceNeverNegative == \A u \in Users : wallets[u].balance >= 0

(* A deduction was refused on a wallet that an earlier call had debited.   *)
C1_Witness ==
    \E p \in Proc :
       /\ finished[p].result = "Insufficient balance"
       /\ wallets[finished[p].user].total_spent > 0
       /\ wallets[finished[p].user].balance < finished[p].amount

(* Two overlapping deduct_delta calls, each for the whole balance B > 0 of *)
(* the same usable wallet.                                                 *)
TwoDeductsOfWholeBalance ==
    /\ Overlapped
    /\ \A p \in Proc :
         /\ finished[p].op = "deduct_delta"
         /\ finished[p].user = finished["p1"].user
         /\ finished[p].amount > 0
         /\ finished[p].amount = finished[p].seen_balance
    /\ Usable(wallets[finished["p1"].user])

(* C2: of two concurrent deduct_delta calls for amount B on one active     *)
(* wallet with balance B, under every interleaving one succeeds, the other *)
(* fails with "Insufficient balance", and the final balance is 0.          *)
C2_ConcurrentDeductsOneWins ==
    TwoDeductsOfWholeBalance =>
       /\ {finished[p].result : p \in Proc} = {"ok", "Insufficient balance"}
       /\ wallets[finished["p1"].user].balance = 0

C2_Witness ==
    /\ TwoDeductsOfWholeBalance
    /\ finished["p2"].result = "ok"
    /\ finished["p1"].result = "Insufficient balance"

(* C3: no lost updates. Under every interleaving of concurrent calls each  *)
(* wallet's balance is its initial balance plus the amounts of the         *)
(* committed credits minus the amounts of the committed debits.            *)
C3_NoLostUpdates ==
    \A u \in Users : wallets[u].exists => wallets[u].balance = expected[u]

(* An add_delta and a deduct_delta on the same wallet overlapped and both  *)
(* succeeded.                                                              *)
C3_Witness ==
    /\ Overlapped
    /\ {finished[p].op : p \in Proc} = {"add_delta", "deduct_delta"}
    /\ finished["p1"].user = finished["p2"].user
    /\ \A p \in Proc : finished[p].result = "ok"

(* Two overlapping purchase_product(quantity=1) calls for the same         *)
(* limited, available product with one item left, by buyers with usable    *)
(* wallets that hold the price.                                            *)
TwoPurchasesOfLastItem ==
    /\ Overlapped
    /\ \A p \in Proc :
         /\ finished[p].op = "purchase_product"
         /\ finished[p].product = finished["p1"].product
         /\ finished[p].quantity = 1
         /\ finished[p].seen_stock = 1
         /\ finished[p].seen_available
         /\ products[finished[p].product].is_limited
         /\ Usable(wallets[finished[p].user])
         /\ finished[p].seen_balance >= products[finished[p].product].price

(* C7: of two concurrent purchases of the last item exactly one succeeds   *)
(* (one purchase record, one spend transaction), the other fails without   *)
(* debiting its buyer, and the product ends with quantity_available = 0    *)
(* and is_available = false.                                               *)
C7_ConcurrentPurchaseOneWins ==
    TwoPurchasesOfLastItem =>
       \E win \in Proc :
          LET won == finished[win]
              lost == finished[CHOOSE q \in Proc : q # win]
              product == products[won.product]
          IN /\ won.result = "ok"
             /\ lost.result \in ValidationErrors
             /\ Len(purchases) = won.seen_npur + 1
             /\ Len(txs) = won.seen_ntx + 1
             /\ txs[Len(txs)].transaction_type = "spend"
             /\ txs[Len(txs)].wallet = won.user
             /\ wallets[won.user].balance = won.seen_balance - product.price
             /\ lost.user # won.user =>
                   /\ wallets[lost.user].balance = lost.seen_balance
                   /\ wallets[lost.user].total_spent = 0
             /\ product.quantity_available = 0
             /\ ~product.is_available

C7_Witness ==
    /\ TwoPurchasesOfLastItem
    /\ finished["p1"].user # finished["p2"].user
    /\ finished["p1"].result = "Product is not available"
    /\ finished["p2"].result = "ok"

(* C4: transfer_delta is all-or-nothing. The step that ends a transfer     *)
(* either debits the sender and credits the recipient by the amount (the   *)
(* sum of the two balances unchanged, one record each), or reports a       *)
(* failure and leaves every wallet and the transaction log as they were:   *)
(* a debit of the sender whose credit was rejected is rolled back.         *)
C4_TransferAllOrNothing ==
    [][\A p \in Proc :
          (Ended(p) /\ finished'[p].op = "transfer_delta") =>
             LET c == finished'[p]
                 from == wallets[c.user]
                 to == wallets[c.to]
             IN \/ /\ c.result = "ok"
                   /\ wallets'[c.user] =
                         [from EXCEPT !.balance = @ - c.amount,
                                      !.total_spent = @ + c.amount]
                   /\ wallets'[c.to] =
                         [to EXCEPT !.balance = @ + c.amount,
                                    !.total_earned = @ + c.amount]
                   /\ wallets'[c.user].balance + wallets'[c.to].balance
                         = from.balance + to.balance
                   /\ Len(txs') = Len(txs) + 2
                   /\ SubSeq(txs', 1, Len(txs)) = txs
                \/ /\ c.result # "ok"
                   /\ wallets' = wallets
                   /\ txs' = txs]_vars

(* A transfer failed although its sender could pay: the recipient's        *)
(* credit was rejected, and the sender's wallet and the log are as before. *)
C4_Witness ==
    \E p \in Proc :
       LET c == finished[p]
       IN /\ c.op = "transfer_delta"
          /\ c.result = "Transfer failed"
          /\ c.amount > 0
          /\ Usable(wallets[c.user])
          /\ c.seen_balance >= c.amount
          /\ wallets[c.user].balance = c.seen_balance
          /\ Len(txs) = c.seen_ntx

(* C5: a successful reverse_transaction of a transaction that is the last  *)
(* to have touched its wallet leaves the wallet's balance equal to that    *)
(* transaction's balance_before, by a record of the opposite direction.    *)
C5_ReverseRestoresBalance ==
    [][\A p \in Proc :
          (/\ Ended(p)
           /\ finished'[p].op = "reverse_transaction"
           /\ finished'[p].result = "ok"
           /\ wallets[finished'[p].user].balance
                 = txs[finished'[p].tx].balance_after) =>
             LET c == finished'[p]
                 transaction == txs[c.tx]
                 reversal == txs'[Len(txs')]
             IN /\ wallets'[c.user].balance = transaction.balance_before
                /\ reversal.balance_after - reversal.balance_before
                      = transaction.balance_before - transaction.balance_after]_vars

(* C8: deduct_delta(user, amount) on an active, unfrozen wallet with       *)
(* balance b. If b >= amount the call goes on to commit, and its commit    *)
(* sets the balance to b - amount, adds amount to total_spent and appends  *)
(* one completed record (b, b - amount); if b < amount it fails with       *)
(* "Insufficient balance" and changes no wallet and no record.             *)
C8_DeductEffect ==
    [][\A p \in Proc :
          LET c == call[p]
              w == wallets[c.user]
          IN (c.op = "deduct_delta" /\ c.amount > 0 /\ pc'[p] # pc[p]
              /\ Usable(w)) =>
                /\ pc[p] = "debit" =>
                      /\ UNCHANGED db
                      /\ IF w.balance >= c.amount
                         THEN pc'[p] = "commit"
                         ELSE /\ pc'[p] = "idle"
                              /\ finished'[p].result = "Insufficient balance"
                /\ pc[p] = "commit" =>
                      /\ finished'[p].result = "ok"
                      /\ w.balance >= c.amount
                      /\ wallets' =
                            [wallets EXCEPT
                               ![c.user] = [w EXCEPT !.balance = @ - c.amount,
                                                     !.total_spent = @ + c.amount]]
                      /\ Len(txs') = Len(txs) + 1
                      /\ SubSeq(txs', 1, Len(txs)) = txs
                      /\ LET t == txs'[Len(txs')]
                         IN /\ t.wallet = c.user
                            /\ t.transaction_type = c.type
                            /\ t.amount = c.amount
                            /\ t.status = "completed"
                            /\ t.balance_before = w.balance
                            /\ t.balance_after = w.balance - c.amount]_vars

(* The example of the specification, scaled: a deduction leaves a balance  *)
(* below its amount with the record (before, after), and the same          *)
(* deduction again is refused.                                             *)
C8_Witness ==
    \E p \in Proc :
       LET c == finished[p]
       IN /\ c.op = "deduct_delta"
          /\ c.result = "Insufficient balance"
          /\ Len(txs) = 1
          /\ txs[1].wallet = c.user
          /\ txs[1].transaction_type = "spend"
          /\ txs[1].amount = c.amount
          /\ txs[1].balance_before = InitBalance
          /\ txs[1].balance_after = wallets[c.user].balance
          /\ wallets[c.user].balance = InitBalance - c.amount
          /\ wallets[c.user].total_spent = c.amount

(* C9: the commit of an add_delta(user, amount) adds amount to the         *)
(* wallet's balance and total_earned, leaves total_spent, is_active and    *)
(* is_frozen alone, and appends exactly one completed record of the given  *)
(* type and amount with the balance before and after the call.             *)
C9_AddEffect ==
    [][\A p \in Proc :
          (call[p].op = "add_delta" /\ pc[p] = "commit" /\ pc'[p] # "commit") =>
             LET c == call[p]
                 w == wallets[c.user]
                 t == txs'[Len(txs')]
             IN /\ finished'[p].result = "ok"
                /\ c.amount > 0
                /\ wallets' =
                      [wallets EXCEPT
                         ![c.user] = [w EXCEPT !.balance = @ + c.amount,
                                               !.total_earned = @ + c.amount]]
                /\ Len(txs') = Len(txs) + 1
                /\ SubSeq(txs', 1, Len(txs)) = txs
                /\ t.wallet = c.user
                /\ t.transaction_type = c.type
                /\ t.amount = c.amount
                /\ t.status = "completed"
                /\ t.balance_before = w.balance
                /\ t.balance_after = wallets'[c.user].balance]_vars

(* An add_delta succeeded on a wallet that had spent before.               *)
C9_Witness ==
    \E p \in Proc :
       LET c == finished[p]
       IN /\ c.op = "add_delta"
          /\ c.result = "ok"
          /\ wallets[c.user].total_spent > 0
          /\ txs[Len(txs)].transaction_type = "earn"
          /\ txs[Len(txs)].balance_after = wallets[c.user].balance
          /\ wallets[c.user].total_earned = InitBalance + c.amount

(* A wallet row that is frozen or switched off.                            *)
Blocked(w) == w.exists /\ (~w.is_active \/ w.is_frozen)

(* The wallets a call names: its user and, for a transfer, the recipient.  *)
Touched(c) == {c.user, c.to} \cap Users

WalletTxs(log, u) == SelectSeq(log, LAMBDA t : t.wallet = u)

(* While a wallet is blocked no step changes its balance, its totals or    *)
(* its transactions (the is_reversed flags included).                      *)
BlockedWalletsKept ==
    \A u \in Users :
       Blocked(wallets[u]) =>
          /\ wallets'[u].balance = wallets[u].balance
          /\ wallets'[u].total_earned = wallets[u].total_earned
          /\ wallets'[u].total_spent = wallets[u].total_spent
          /\ WalletTxs(txs', u) = WalletTxs(txs, u)

(* The ways a call on a blocked wallet ends without a validation error:    *)
(* award_for_activity returns None when no active rule has the name or     *)
(* the rule's min_accuracy is not met, and a transfer to the wallet from   *)
(* a sender who has no wallet row raises DeltaWallet.DoesNotExist.         *)
OtherOutcomes(c) ==
    (IF /\ c.op = "award_for_activity"
        /\ \A r \in EarningRules :
              (r.name = c.rule /\ r.is_active) =>
                 (r.has_min_accuracy /\ c.accuracy < r.min_accuracy)
     THEN {"None"} ELSE {})
    \cup
    (IF c.op = "transfer_delta" /\ ~wallets[c.user].exists
     THEN {"DoesNotExist"} ELSE {})

ReversalsOf(i) ==
    {j \in 1..Len(txs) :
        /\ txs[j].transaction_type = "reversal"
        /\ txs[j].reference_type = "transaction_reversal"
        /\ txs[j].reference_id = ToString(i)}

(* C6: a transaction is reversed at most once. Whatever reversals are      *)
(* called one after another, no transaction has two reversal records;      *)
(* a reverse_transaction of a transaction already reversed fails with a    *)
(* validation error and changes no wallet and no record; and its status   *)
(* test refuses every status other than 'completed'.                       *)
C6_ReversedAtMostOnce ==
    /\ [](\A i \in 1..Len(txs) :
             /\ Cardinality(ReversalsOf(i)) <= 1
             /\ txs[i].is_reversed <=> ReversalsOf(i) # {}
             /\ \A status \in STATUS_CHOICES \ {"completed"} :
                   ReversalError([txs[i] EXCEPT !.status = status])
                      \in ValidationErrors)
    /\ [][\A p \in Proc :
             (/\ Ended(p)
              /\ finished'[p].op = "reverse_transaction"
              /\ \/ txs[finished'[p].tx].is_reversed
                 \/ txs[finished'[p].tx].status # "completed") =>
                /\ finished'[p].result \in ValidationErrors
                /\ UNCHANGED db]_vars

(* A second reversal of the same transaction was refused.                  *)
C6_Witness ==
    \E p \in Proc :
       LET c == finished[p]
       IN /\ c.op = "reverse_transaction"
          /\ c.result = "Transaction already reversed"
          /\ Cardinality(ReversalsOf(c.tx)) = 1
          /\ txs[c.tx].reversed_by \in ReversalsOf(c.tx)

(* C11: add_delta, deduct_delta and transfer_delta with amount <= 0, and   *)
(* transfer_delta to oneself with any amount, fail with a validation       *)
(* error ("Amount must be positive", "Cannot transfer to yourself") and    *)
(* leave every wallet and the transaction log unchanged.                   *)
C11_InvalidArgumentsRejected ==
    [][\A p \in Proc :
          LET c == finished'[p]
              self_transfer == c.op = "transfer_delta" /\ c.user = c.to
          IN (/\ Ended(p)
              /\ c.op \in {"add_delta", "deduct_delta", "transfer_delta"}
              /\ (c.amount <= 0 \/ self_transfer)) =>
                /\ c.result \in ValidationErrors
                /\ c.result = IF self_transfer
                              THEN "Cannot transfer to yourself"
                              ELSE "Amount must be positive"
                /\ wallets' = wallets
                /\ txs' = txs]_vars

(* A deduction of a negative amount was refused on a usable wallet that    *)
(* holds a balance, and nothing was logged.                                *)
C11_Witness ==
    \E p \in Proc :
       LET c == finished[p]
       IN /\ c.op = "deduct_delta"
          /\ c.amount < 0
          /\ c.result = "Amount must be positive"
          /\ Usable(wallets[c.user])
          /\ wallets[c.user].balance = InitBalance
          /\ txs = <<>>

(* The last record of the log is a plain deduct_delta of worker p's        *)
(* add_delta's amount from the same wallet, and nothing touched the        *)
(* wallet since.                                                           *)
AddFollowsDeduct(p) ==
    /\ call[p].op = "add_delta"
    /\ Len(txs) > 0
    /\ LET d == txs[Len(txs)]
       IN /\ d.wallet = call[p].user
          /\ d.transaction_type \in DebitTypes
          /\ d.reference_type = "None"
          /\ d.amount = call[p].amount
          /\ d.balance_after = wallets[call[p].user].balance

(* C12: on a usable wallet with balance b, deduct_delta(a) for 0 < a <= b  *)
(* immediately followed by add_delta(a) leaves the balance b, and the two  *)
(* calls add exactly two records (the debit, then the credit).             *)
C12_DeductThenAddRestores ==
    [][\A p \in Proc :
          (AddFollowsDeduct(p) /\ pc[p] = "commit" /\ pc'[p] # "commit") =>
             LET d == txs[Len(txs)]
                 u == call[p].user
             IN /\ finished'[p].result = "ok"
                /\ wallets'[u].balance = d.balance_before
                /\ Len(txs') = (Len(txs) - 1) + 2
                /\ txs'[Len(txs') - 1] = d
                /\ txs'[Len(txs')].wallet = u
                /\ txs'[Len(txs')].balance_before = d.balance_after
                /\ txs'[Len(txs')].balance_after = d.balance_before]_vars

(* A wallet is back at its initial balance after a deduct_delta and an     *)
(* add_delta of the same amount, with those two records in the log.        *)
C12_Witness ==
    \E p \in Proc :
       LET c == finished[p]
       IN /\ c.op = "add_delta"
          /\ c.result = "ok"
          /\ Len(txs) = 2
          /\ txs[1].wallet = c.user
          /\ txs[1].transaction_type = "spend"
          /\ txs[1].amount = c.amount
          /\ txs[2].wallet = c.user
          /\ txs[2].transaction_type = "earn"
          /\ wallets[c.user].balance = InitBalance
          /\ wallets[c.user].total_spent = c.amount

(* A record without its reversal flags / without its link to the other     *)
(* party of a transfer as well.                                            *)
Content(t) == [t EXCEPT !.is_reversed = FALSE, !.reversed_by = 0]

Linkless(t) == [Content(t) EXCEPT !.related_user = NoUser]

(* The records worker p's call has created so far, after this step: in     *)
(* its open transaction, or at the end of the log once it commits.         *)
CreatedAfterStep(p) ==
    IF pc[p] = "commit" /\ pc'[p] = "idle"
    THEN SubSeq(txs', Len(txs) + 1, Len(txs'))
    ELSE buf'[p].tx

(* No step removes a committed record or changes more of it than its       *)
(* reversal flags.                                                         *)
CommittedRecordsKept ==
    /\ Len(txs') >= Len(txs)
    /\ \A i \in 1..Len(txs) : Content(txs'[i]) = Content(txs[i])

Sign(t) ==
    IF t.balance_after = t.balance_before + t.amount THEN 1
    ELSE IF t.balance_after = t.balance_before - t.amount THEN -1
    ELSE 0

(* Records i and i + 1 are the sender's debit and the recipient's credit   *)
(* of one transfer.                                                        *)
TransferPair(i) ==
    /\ i >= 1 /\ i + 1 <= Len(txs)
    /\ txs[i].transaction_type = "transfer" /\ Sign(txs[i]) = -1
    /\ txs[i + 1].transaction_type = "transfer" /\ Sign(txs[i + 1]) = 1
    /\ txs[i].amount = txs[i + 1].amount
    /\ txs[i].related_user = txs[i + 1].wallet
    /\ txs[i + 1].related_user = txs[i].wallet

(* C14: every record has amount > 0 and balance_after = balance_before     *)
(* plus or minus the amount, the sign fixed by its type: earn, bonus,      *)
(* refund and admin_add add; spend and admin_deduct take off; a transfer   *)
(* takes off on the sender's wallet and adds on the recipient's; a         *)
(* reversal has the sign opposite to the record it reverses.               *)
C14_RecordSignMatchesType ==
    \A i \in 1..Len(txs) :
       LET t == txs[i]
       IN /\ t.amount > 0
          /\ Sign(t) # 0
          /\ t.transaction_type \in {"earn", "bonus", "refund", "admin_add"}
                => Sign(t) = 1
          /\ t.transaction_type \in {"spend", "admin_deduct"} => Sign(t) = -1
          /\ t.transaction_type = "transfer"
                => TransferPair(i) \/ TransferPair(i - 1)
          /\ t.transaction_type = "reversal"
                => \A j \in 1..Len(txs) :
                      txs[j].reversed_by = i => Sign(t) = 0 - Sign(txs[j])

(* C15: a wallet row is created on first access. A row that appears is a   *)
(* new wallet (balance 0, active, not frozen), and no add_delta,           *)
(* deduct_delta, award_for_activity, purchase_product or transfer_delta    *)
(* (as sender or recipient) fails because a user it names has no row:      *)
(* none ends with DoesNotExist, nor as a transfer failed for want of the   *)
(* recipient's row.                                                        *)
C15_WalletCreatedOnFirstAccess ==
    [][/\ \A u \in Users :
             (~wallets[u].exists /\ wallets'[u].exists) =>
                /\ wallets'[u].is_active /\ ~wallets'[u].is_frozen
                /\ wallets'[u].balance = wallets'[u].total_earned
                                            - wallets'[u].total_spent
       /\ \A p \in Proc :
             LET c == finished'[p]
             IN (/\ Ended(p)
                 /\ c.op \in {"add_delta", "deduct_delta", "award_for_activity",
                              "purchase_product", "transfer_delta"}
                 /\ \E u \in Touched(c) : ~wallets[u].exists) =>
                   /\ c.result # "DoesNotExist"
                   /\ ~(c.result = "Transfer failed" /\ ~wallets[c.to].exists)]_vars

(* The rules an award call should pay by: active, of the call's name, and  *)
(* with a min_accuracy no higher than the accuracy supplied (0 if none).   *)
RulesToPay(c) ==
    {r \in EarningRules :
        /\ r.name = c.rule
        /\ r.is_active
        /\ r.has_min_accuracy =>
              (IF c.accuracy = NotSupplied THEN 0 ELSE c.accuracy) >= r.min_accuracy}

AwardsFor(u, rule, ref) ==
    {i \in 1..Len(txs) :
        /\ txs[i].transaction_type = "earn"
        /\ txs[i].wallet = u
        /\ txs[i].description = rule
        /\ txs[i].reference_type = "practice_session"
        /\ txs[i].reference_id = ref}

(* C17: awarding is idempotent. For one user, one earning rule and one     *)
(* reference (a practice session), however often award_for_activity is     *)
(* repeated, at most one award is credited.                                *)
C17_AwardedAtMostOnce ==
    \A u \in Users, r \in EarningRules, ref \in Sessions :
       Cardinality(AwardsFor(u, r.name, ref)) <= 1

(* C18: every failure of a transfer_delta or purchase_product call made    *)
(* through its view is answered with a 4xx status, never a 5xx, whatever   *)
(* the state of the wallets (absent, inactive, frozen, short of balance),  *)
(* the amount or the product, and leaves the ledger unchanged.             *)
C18_FailuresAnswered4xx ==
    [][\A p \in Proc :
          (/\ Ended(p)
           /\ finished'[p].op \in {"transfer_delta", "purchase_product"}
           /\ finished'[p].result # "ok") =>
             /\ HttpStatus(finished'[p].result) \in 400..499
             /\ UNCHANGED db]_vars

(* Every purchase record is linked to one 'spend' record of its buyer and  *)
(* price, and no record is linked to two purchases.                        *)
PurchasesLinked ==
    /\ \A k \in 1..Len(purchases) :
          /\ purchases[k].transaction \in 1..Len(txs)
          /\ txs[purchases[k].transaction].transaction_type = "spend"
          /\ txs[purchases[k].transaction].wallet = purchases[k].user
          /\ txs[purchases[k].transaction].amount = purchases[k].total_price
    /\ \A k, l \in 1..Len(purchases) :
          purchases[k].transaction = purchases[l].transaction => k = l

(* C19: purchase_product is atomic. Its commit writes exactly one 'spend'  *)
(* record of price * quantity, one purchase record linked to it, and for   *)
(* a limited product takes exactly quantity off the stock; a purchase      *)
(* that fails changes no wallet, product, record or purchase. Purchases    *)
(* and their records are linked one to one.                                *)
C19_PurchaseAtomic ==
    /\ []PurchasesLinked
    /\ [][\A p \in Proc :
             /\ (Ended(p) /\ finished'[p].op = "purchase_product"
                 /\ finished'[p].result # "ok") => UNCHANGED db
             /\ (Ended(p) /\ finished'[p].op = "purchase_product"
                 /\ finished'[p].result = "ok") =>
                   LET c == finished'[p]
                       product == products[c.product]
                       total_price == product.price * c.quantity
                       t == txs'[Len(txs')]
                       purchase == purchases'[Len(purchases')]
                   IN /\ Len(txs') = Len(txs) + 1
                      /\ SubSeq(txs', 1, Len(txs)) = txs
                      /\ t.transaction_type = "spend"
                      /\ t.wallet = c.user
                      /\ t.amount = total_price
                      /\ Len(purchases') = Len(purchases) + 1
                      /\ SubSeq(purchases', 1, Len(purchases)) = purchases
                      /\ purchase.transaction = Len(txs')
                      /\ purchase.user = c.user
                      /\ purchase.product = c.product
                      /\ purchase.quantity = c.quantity
                      /\ purchase.total_price = total_price
                      /\ wallets'[c.user].balance
                            = wallets[c.user].balance - total_price
                      /\ IF product.is_limited
                         THEN products'[c.product].quantity_available
                                 = product.quantity_available - c.quantity
                         ELSE products' = products]_vars

(* The last badge was bought: one purchase, its record, no stock left;     *)
(* and the buyer's wallet shows the price spent.                           *)
C19_Witness ==
    \E p \in Proc :
       LET c == finished[p]
       IN /\ c.op = "purchase_product"
          /\ c.result = "ok"
          /\ products[c.product].is_limited
          /\ c.seen_stock = 1
          /\ products[c.product].quantity_available = 0
          /\ Len(purchases) = 1
          /\ purchases[1].transaction = Len(txs)
          /\ wallets[c.user].total_spent = products[c.product].price

(* The total quantity of product i in the first k purchase records.        *)
RECURSIVE Sold(_, _)
Sold(i, k) ==
    IF k = 0 THEN 0
    ELSE Sold(i, k - 1)
           + (IF purchases[k].product = i THEN purchases[k].quantity ELSE 0)

(* The stock of a limited product is never negative and is what it         *)
(* started with less what was sold.                                        *)
StockAccounted(i) ==
    /\ products[i].quantity_available >= 0
    /\ products[i].quantity_available
          = products[i].initial_stock - Sold(i, Len(purchases))

(* C20 as stated: for every limited product, once purchase_product has     *)
(* been called on it (sequentially or concurrently, from any stock >= 0),  *)
(* the stock is never negative, equals the initial stock less the          *)
(* quantities sold, and the product is unavailable whenever the stock is   *)
(* 0.                                                                      *)
C20_StockInvariant ==
    \A i \in ProductIds :
       (/\ products[i].is_limited
        /\ \E p \in Proc : finished[p].op = "purchase_product"
                              /\ finished[p].product = i) =>
          /\ StockAccounted(i)
          /\ products[i].quantity_available = 0 => ~products[i].is_available

(* C20, amended: the stock is never negative and equals the initial stock  *)
(* less the quantities sold, and the product is unavailable whenever       *)
(* purchases have brought its stock to 0; a product that starts available  *)
(* with stock 0 stays so, and nothing of it is ever sold.                  *)
C20_StockInvariantOnceSold ==
    \A i \in ProductIds :
       products[i].is_limited =>
          /\ StockAccounted(i)
          /\ (products[i].quantity_available = 0
              /\ products[i].initial_stock > 0) => ~products[i].is_available
          /\ products[i].initial_stock = 0 =>
                /\ Sold(i, Len(purchases)) = 0
                /\ products[i].is_available

(* Two overlapping purchases sold the two items of a product, which is     *)
(* now unavailable with no stock.                                          *)
C20_Witness ==
    /\ Overlapped
    /\ \A p \in Proc :
          /\ finished[p].op = "purchase_product"
          /\ finished[p].result = "ok"
          /\ finished[p].product = finished["p1"].product
          /\ products[finished[p].product].is_limited
    /\ Len(purchases) = 2
    /\ products[finished["p1"].product].initial_stock = 2
    /\ products[finished["p1"].product].quantity_available = 0
    /\ ~products[finished["p1"].product].is_available

(* C26: every wallet's balance is its total_earned less its total_spent,   *)
(* from its creation with all three at 0 through every add_delta,          *)
(* deduct_delta, transfer_delta, reverse_transaction, award_for_activity   *)
(* and purchase_product; and no step lowers total_earned or total_spent.   *)
C26_BalanceIsEarnedLessSpent ==
    /\ [](\A u \in Users :
             wallets[u].balance = wallets[u].total_earned - wallets[u].total_spent)
    /\ [][\A u \in Users :
             /\ wallets'[u].total_earned >= wallets[u].total_earned
             /\ wallets'[u].total_spent >= wallets[u].total_spent]_vars

(* A wallet that started at 0 has earned and then spent part of it.        *)
C26_Witness ==
    \E u \in Users :
       /\ wallets[u].exists
       /\ wallets[u].total_earned > 0
       /\ wallets[u].total_earned < InitBalance
       /\ wallets[u].total_spent > 0
       /\ wallets[u].balance > 0

(* Two overlapping reverse_transaction calls for the same transaction,     *)
(* which was completed and not reversed in the copy each caller loaded.    *)
TwoReversalsOfOne ==
    /\ Overlapped
    /\ \A p \in Proc :
          /\ finished[p].op = "reverse_transaction"
          /\ finished[p].tx = finished["p1"].tx
          /\ ~finished[p].copy_reversed
          /\ finished[p].copy_status = "completed"

(* C27: of two concurrent reverse_transaction calls for the same           *)
(* completed, unreversed transaction, under every interleaving at most     *)
(* one creates a reversal record, and the wallet's balance moves by the    *)
(* transaction's amount at most once.                                      *)
C27_ConcurrentReversalsOnce ==
    TwoReversalsOfOne =>
       LET i == finished["p1"].tx
           transaction == txs[i]
           moved == wallets[transaction.wallet].balance - transaction.balance_after
       IN /\ Cardinality(ReversalsOf(i)) <= 1
          /\ moved \in {0, transaction.amount, 0 - transaction.amount}

(* Worker p's transfer holds the row lock of its sender's wallet and       *)
(* waits for the row of its recipient, which worker q holds.               *)
HoldsAndWaits(p, q) ==
    /\ call[p].op = "transfer_delta"
    /\ pc[p] = "credit"
    /\ wlock[call[p].user] = p
    /\ wlock[call[p].to] = q

(* C28: two concurrent opposite transfers between usable wallets that      *)
(* hold the amounts never reach a state in which each holds the row lock   *)
(* of its own sender and waits for the lock of the other's (so both can    *)
(* run to completion).                                                     *)
C28_OppositeTransfersNoDeadlock ==
    \A p, q \in Proc :
       ~(/\ p # q
         /\ HoldsAndWaits(p, q)
         /\ HoldsAndWaits(q, p)
         /\ \A r \in {p, q} :
               /\ Usable(wallets[call[r].user])
               /\ call[r].seen_balance >= call[r].amount)

(* The timezone source the stated priority picks for a request, with its   *)
(* value.                                                                  *)
PrioritySource(r) ==
    IF r.user.has_user /\ r.user.is_authenticated
       /\ r.user.timezone \notin {Absent, ""}
    THEN <<"user", r.user.timezone>>
    ELSE IF r.detected_timezone # Absent
    THEN <<"session", r.detected_timezone>>
    ELSE IF r.HTTP_X_TIMEZONE # Absent
    THEN <<"header", r.HTTP_X_TIMEZONE>>
    ELSE <<"default", "UTC">>

(* C22: for every combination of sources the timezone is the               *)
(* authenticated user's saved non-empty timezone, else the session's       *)
(* detected_timezone, else the X-Timezone header, else 'UTC'; the utility  *)
(* and the middleware pick the same source, the middleware returning no    *)
(* timezone where the utility returns 'UTC'.                               *)
C22_TimezonePriority ==
    /\ \A r \in Requests :
          /\ get_user_timezone_from_request(r) = PrioritySource(r)[2]
          /\ get_timezone(r) = IF PrioritySource(r)[1] = "default"
                               THEN None ELSE PrioritySource(r)[2]
    /\ resolved # Unresolved => resolved = PrioritySource(request)[2]
    /\ activated \notin {Unresolved, Deactivated} =>
          /\ activated = PrioritySource(request)[2]
          /\ PrioritySource(request)[1] # "default"
    /\ (resolved # Unresolved /\ activated \notin {Unresolved, Deactivated})
          => activated = resolved

(* A request with the session's timezone and a header, from a user whose   *)
(* saved timezone is empty: both took the session's.                       *)
C22_Witness ==
    /\ request.user.is_authenticated
    /\ request.user.timezone = ""
    /\ request.detected_timezone = "Asia/Singapore"
    /\ request.HTTP_X_TIMEZONE = "Australia/Sydney"
    /\ resolved = "Asia/Singapore"
    /\ activated = "Asia/Singapore"

(* The answers recorded for session i, and those of them that are correct. *)
AnswersOf(i) == {k \in 1..Len(answers) : answers[k].session = i}

CorrectAnswersOf(i) == {k \in AnswersOf(i) : answers[k].is_correct}

(* C23: between sequential check_answer calls there is at most one answer  *)
(* per (session, question), every session's questions_answered is the      *)
(* number of answers recorded for it and its correct_answers the number of *)
(* those that are correct; no step changes or removes a recorded answer,   *)
(* so the one kept is the first submitted; and a submission for a question *)
(* the session has already answered changes neither the answers nor the    *)
(* session statistics.                                                     *)
C23_OneAnswerPerQuestion ==
    /\ [](Idle =>
            /\ \A k, m \in 1..Len(answers) :
                  (/\ answers[k].session = answers[m].session
                   /\ answers[k].question = answers[m].question) => k = m
            /\ \A i \in 1..Len(sessions) :
                  /\ sessions[i].questions_answered = Cardinality(AnswersOf(i))
                  /\ sessions[i].correct_answers = Cardinality(CorrectAnswersOf(i))
                  /\ sessions[i].correct_answers <= sessions[i].questions_answered)
    /\ [][/\ Len(answers') >= Len(answers)
          /\ SubSeq(answers', 1, Len(answers)) = answers
          /\ \A p \in Proc :
                (/\ at[p] = "answer"
                 /\ \E a \in Range(answers) :
                       /\ a.session = local[p].session_id
                       /\ a.question = local[p].question) =>
                   /\ answers' = answers
                   /\ sessions' = sessions
                   /\ at'[p] = "idle"]_vars

(* A question answered wrongly was submitted again as correct in the same  *)
(* session: the wrong answer is still the only one and the session counts  *)
(* one answer, none correct.                                               *)
C23_Witness ==
    /\ Idle
    /\ response.view = "check_answer"
    /\ response.answer = "kept"
    /\ response.is_correct
    /\ Len(answers) = 1
    /\ ~answers[1].is_correct
    /\ sessions[answers[1].session].questions_answered = 1
    /\ sessions[answers[1].session].correct_answers = 0

(* A step of worker p's check_answer call.                                 *)
CheckAnswerStep(p) ==
    \/ at[p] # "idle"
    \/ at'[p] # "idle"
    \/ response' # response /\ response'.view = "check_answer"

(* Worker p's call has just recorded an answer that is correct and is the  *)
(* student's only answer to the question, in any session.                  *)
FirstCorrect(p) ==
    /\ local[p].created
    /\ answers # <<>>
    /\ LET a == answers[Len(answers)]
       IN /\ a.question = local[p].question
          /\ a.session = local[p].session_id
          /\ a.is_correct
          /\ \A k \in 1..(Len(answers) - 1) : answers[k].question # a.question

(* C24: check_answer creates a mastered record for the question exactly    *)
(* when the answer it recorded is correct and is the student's first       *)
(* recorded attempt at the question in any session; a correct answer after *)
(* an earlier attempt, an incorrect answer, and a submission that records  *)
(* nothing leave the mastered records as they are.                         *)
C24_AutoMasterOnFirstCorrect ==
    [][(\E p \in Proc : CheckAnswerStep(p)) =>
          IF \E p \in Proc : at[p] = "master" /\ FirstCorrect(p)
          THEN \E p \in Proc :
                  /\ at[p] = "master" /\ FirstCorrect(p)
                  /\ local[p].question \notin Range(mastered)
                  /\ mastered' = Append(mastered, local[p].question)
          ELSE mastered' = mastered]_vars

(* A question answered wrongly in one session was answered correctly in    *)
(* another: both answers are recorded and nothing is mastered.             *)
C24_Witness ==
    /\ Idle
    /\ response.view = "check_answer"
    /\ response.answer = "created"
    /\ response.is_correct
    /\ Len(answers) = 2
    /\ answers[1].question = answers[2].question
    /\ answers[1].session # answers[2].session
    /\ ~answers[1].is_correct
    /\ answers[2].is_correct
    /\ mastered = <<>>

(* The student's answers to q contain an incorrect one followed later by a *)
(* correct one of another session.                                         *)
WrongThenCorrect(q) ==
    \E k, m \in 1..Len(answers) :
       /\ k < m
       /\ answers[k].question = q /\ ~answers[k].is_correct
       /\ answers[m].question = q /\ answers[m].is_correct
       /\ answers[k].session # answers[m].session

(* C25: master_question creates a mastered record for a question only if   *)
(* the student's attempts at it contain an incorrect attempt followed      *)
(* later by a correct attempt in a different session; with no attempts,    *)
(* with only incorrect or only correct attempts, and after a single        *)
(* correct attempt, it creates none.                                       *)
C25_ManualMasterAfterWrongThenCorrect ==
    [][\A q \in QuestionIds :
          (/\ Idle
           /\ response'.view = "master_question"
           /\ q \in Range(mastered') \ Range(mastered)) => WrongThenCorrect(q)]_vars

(* The step is a practice_view request in resume mode with a skill filter. *)
ResumeServed ==
    /\ Len(sessions') = Len(sessions) + 1
    /\ response'.view = "practice_view"
    /\ response'.params.resume
    /\ response'.params.skill # None

(* The bucket the student's history puts question q in: 1 mastered,        *)
(* 2 fresh (never attempted and not mastered), 3 previously missed         *)
(* (answered incorrectly, not mastered); 0 for a question in none of them. *)
Bucket(q) ==
    IF q \in Range(mastered) THEN 1
    ELSE IF Attempts(answers, q) = <<>> THEN 2
    ELSE IF \E a \in Range(Attempts(answers, q)) : ~a.is_correct THEN 3
    ELSE 0

(* C21: in resume mode with a skill filter the list practice_view serves   *)
(* is the mastered questions, then the fresh ones, then the previously     *)
(* missed ones: every id is in one of the three buckets, the buckets come  *)
(* in this order, and no id appears twice. Stated for the requests that    *)
(* name no starting question and are not in mistakes mode.                 *)
C21_ResumeThreeBuckets ==
    [][(/\ ResumeServed
        /\ response'.params.question = None
        /\ ~response'.params.mistakes) =>
          LET ids == response'.question_ids
          IN /\ \A i \in 1..Len(ids) : Bucket(ids[i]) # 0
             /\ \A i, j \in 1..Len(ids) :
                   /\ i < j => Bucket(ids[i]) <= Bucket(ids[j])
                   /\ ids[i] = ids[j] => i = j]_vars

(* The active questions that pass the request's skill, domain, provider    *)
(* and type filters.                                                       *)
FilteredQuestions(params) ==
    {q \in QuestionIds :
        /\ is_active[q]
        /\ Catalogue[q].skill_code = params.skill
        /\ params.domain # None => Catalogue[q].domain_code = params.domain
        /\ params.provider # None => Catalogue[q].provider_code = params.provider
        /\ params.type # None => Catalogue[q].question_type = params.type}

(* C30: in resume mode the ids practice_view serves are exactly the        *)
(* active questions that pass the request's filters, the list is as long   *)
(* as the total_questions of the session it creates, and when the list is  *)
(* not empty the initial index is within it. Stated for the requests that  *)
(* name no starting question and are not in mistakes mode.                 *)
C30_ResumeServesCandidates ==
    [][(/\ ResumeServed
        /\ response'.params.question = None
        /\ ~response'.params.mistakes) =>
          LET ids == response'.question_ids
          IN /\ Range(ids) = FilteredQuestions(response'.params)
             /\ Len(ids) = sessions'[Len(sessions')].total_questions
             /\ Len(ids) = response'.total_questions
             /\ ids # <<>> => response'.initial_index \in 0..(Len(ids) - 1)]_vars

(* C29: when two check_answer calls, running at the same time, have        *)
(* recorded the two answers of a session, the session's questions_answered *)
(* is 2, its total_time_seconds the sum of both times and its              *)
(* correct_answers the number of correct ones among the two.               *)
C29_ConcurrentAnswersAllCounted ==
    Idle =>
       \A i \in 1..Len(sessions) :
          \A k, m \in AnswersOf(i) :
             (k < m /\ Cardinality(AnswersOf(i)) = 2) =>
                /\ sessions[i].questions_answered = 2
                /\ sessions[i].total_time_seconds =
                      answers[k].time_taken_seconds + answers[m].time_taken_seconds
                /\ sessions[i].correct_answers = Cardinality(CorrectAnswersOf(i))

====
